---- MODULE Spec2Model ----
(***************************************************************************)
(* A model of the oh-utils command line client (package ohc):              *)
(*   - ConfigManager (ohc/config.py): the stored server profiles and the   *)
(*     default-server bookkeeping of add_server, remove_server and         *)
(*     set_default_server;                                                 *)
(*   - resolve_conversation_id (ohc/command_utils.py): the resolution of   *)
(*     a user token (number, ID prefix, full ID) against a listing.        *)
(* Each subsystem has its own specification (ConfigSpec, ResolveSpec);     *)
(* the variables of the other subsystem stay at their initial values.      *)
(***************************************************************************)
EXTENDS Integers, Sequences, FiniteSets, TLC

VARIABLES
    config,     \* the content of config.json: servers (insertion ordered) and default_server
    pre,        \* the content of config.json before the last ConfigManager call
    last,       \* the last ConfigManager call: op, name, set_default, ret
    token,      \* resolve_conversation_id: the argument conversation_id_or_number
    listing,    \* resolve_conversation_id: the entries (by key) search_conversations answers with
    rpc,        \* resolve_conversation_id: "call" before the call, "done" after it
    ret,        \* resolve_conversation_id: the returned value
    echo,       \* resolve_conversation_id: the click.echo messages, in order
    calls,      \* resolve_conversation_id: the number of api.search_conversations calls
    sel,        \* a conversation command: what its own resolution of the token selected
    urlBase,    \* server add: the base URL b the --url values are built from
    stored,     \* server add: per form of --url, the url found in config.json afterwards
    call,       \* OpenHandsAPI: the last method called and the response it got
    out,        \* OpenHandsAPI: the outcome of that call (value returned or error raised)
    req,        \* OpenHandsAPI: the request of that call: arguments, host, per-request headers
    faults,     \* resolve_conversation_id: what the first and the second search_conversations call raise
    raised,     \* resolve_conversation_id: the exception that left the call, "none" if it returned
    changes,    \* download_conversation_files: the changed files get_conversation_changes answers with
    dl,         \* download_conversation_files: position in the loop, files fetched, their results, downloaded_files
    archive,    \* download_conversation_files: the zip file written, if any
    mgr,        \* ConversationManager: conversations, current_page, page_size, next_page_id, page_ids
    loaded,     \* ConversationManager: the next_page_id of the most recent load that succeeded
    nav,        \* ConversationManager: the navigation call just made, if it was the last command
    picked,     \* ConversationManager: the numbered command just given, if it was the last command
    adding,     \* server add: the invocation's inputs, position, answers given and whether add_server was called
    keyrun      \* APIKeyManager.get_valid_key: the keys at hand, position, attempts, store_key calls, returned key

vars == <<config, pre, last, token, listing, rpc, ret, echo, calls, sel, urlBase, stored,
          call, out, req,
          faults, raised,
          changes, dl, archive,
          mgr, loaded, nav, picked,
          adding,
          keyrun>>

configVars == <<config, pre, last>>
resolveVars == <<token, listing, rpc, ret, echo, calls>>
cmdVars == <<sel>>
urlVars == <<urlBase, stored>>
apiVars == <<call, out, req>>
faultVars == <<faults, raised>>
downloadVars == <<changes, dl, archive>>
managerVars == <<mgr, loaded, nav, picked>>
addVars == <<adding>>
keyVars == <<keyrun>>

(***************************************************************************)
(* Bounds of the model.                                                    *)
(***************************************************************************)
MaxNames == 3
\* the longest listing search_conversations returns in the model
MaxList == 6
\* the longest base URL given to server add
MaxBase == 3
\* the most conversations on one page of the interactive manager
MaxPageLen == 2
\* the pages next_page goes forward
MaxPages == 2
\* the times get_valid_key asks for a key
MaxPrompts == 2
\* the longest listing of changed files
MaxChanges == 3
\* the longest listing where search_conversations may also raise
MaxFaultList == 2

(***************************************************************************)
(* ConfigManager.                                                          *)
(***************************************************************************)

\* JSON null / Python None as the value of default_server.
NULL == "<None>"

\* The server names the calls draw from; "" is the one falsy name.
NamePool == <<"", "a", "b", "c", "d">>
Names == {NamePool[i] : i \in 1..MaxNames}
\* The (url, api_key) pairs the calls draw from.
Credentials == {<<"u1", "k1">>, <<"u2", "k2">>}

\* Python truthiness of config.get("default_server"): None and "" are falsy.
Truthy(v) == v # NULL /\ v # ""

\* load_config() when no file exists.
EmptyConfig == [servers |-> <<>>, default_server |-> NULL]

\* name in config["servers"]
HasServer(servers, name) == \E i \in 1..Len(servers) : servers[i].name = name

\* the position of name in the dict's insertion order
IndexOf(servers, name) == CHOOSE i \in 1..Len(servers) : servers[i].name = name

\* config["servers"][name] = profile: a stored key keeps its position, a new key is appended
PutServer(servers, name, profile) ==
    IF HasServer(servers, name)
    THEN [servers EXCEPT ![IndexOf(servers, name)] = profile]
    ELSE Append(servers, profile)

\* del config["servers"][name]
DelServer(servers, name) ==
    SelectSeq(servers, LAMBDA p : p.name # name)

\* for server_config in config["servers"].values(): server_config["default"] = False
UnsetAll(servers) ==
    [i \in 1..Len(servers) |-> [servers[i] EXCEPT !.default = FALSE]]

\* config["servers"][name]["default"] = True
MarkDefault(servers, name) ==
    [i \in 1..Len(servers) |->
        IF servers[i].name = name THEN [servers[i] EXCEPT !.default = TRUE] ELSE servers[i]]

\* A plausible slip: set_default=True without un-defaulting the other profiles.
AddServerKeepsOthers(cfg, name, url, api_key, set_default) ==
    LET put == PutServer(cfg.servers, name,
                   [name |-> name, url |-> url, api_key |-> api_key, default |-> set_default])
    IN  IF set_default
        THEN [servers |-> MarkDefault(put, name), default_server |-> name]
        ELSE IF ~Truthy(cfg.default_server) /\ Len(put) = 1
        THEN [servers |-> MarkDefault(put, name), default_server |-> name]
        ELSE [servers |-> put, default_server |-> cfg.default_server]

\* ConfigManager.add_server: the configuration it saves.
AddServer(cfg, name, url, api_key, set_default) ==
    LET put == PutServer(cfg.servers, name,
                   [name |-> name, url |-> url, api_key |-> api_key, default |-> set_default])
    IN  IF set_default
        THEN [servers |-> MarkDefault(UnsetAll(put), name), default_server |-> name]
        ELSE IF ~Truthy(cfg.default_server) /\ Len(put) = 1
        THEN [servers |-> MarkDefault(put, name), default_server |-> name]
        ELSE [servers |-> put, default_server |-> cfg.default_server]

\* A plausible slip: default_server is cleared before the name is looked up.
RemoveServerClearsFirst(cfg, name) ==
    IF ~HasServer(cfg.servers, name)
    THEN [config |-> [cfg EXCEPT !.default_server = NULL], ret |-> "False"]
    ELSE LET was_default == cfg.servers[IndexOf(cfg.servers, name)].default
             rest == DelServer(cfg.servers, name)
         IN  IF was_default /\ Len(rest) > 0
             THEN [config |-> [servers |-> MarkDefault(rest, rest[1].name),
                               default_server |-> rest[1].name],
                   ret |-> "True"]
             ELSE [config |-> [servers |-> rest, default_server |-> NULL], ret |-> "True"]

\* ConfigManager.remove_server: the configuration afterwards and the returned value.
RemoveServer(cfg, name) ==
    IF ~HasServer(cfg.servers, name)
    THEN [config |-> cfg, ret |-> "False"]
    ELSE LET was_default == cfg.servers[IndexOf(cfg.servers, name)].default
             rest == DelServer(cfg.servers, name)
         IN  IF was_default
             THEN IF Len(rest) > 0
                  THEN [config |-> [servers |-> MarkDefault(rest, rest[1].name),
                                    default_server |-> rest[1].name],
                        ret |-> "True"]
                  ELSE [config |-> [servers |-> rest, default_server |-> NULL],
                        ret |-> "True"]
             ELSE [config |-> [servers |-> rest, default_server |-> cfg.default_server],
                   ret |-> "True"]

\* A plausible slip: the loop that unsets the other profiles' flags is missing.
SetDefaultServerKeepsOthers(cfg, name) ==
    IF ~HasServer(cfg.servers, name)
    THEN [config |-> cfg, ret |-> "False"]
    ELSE [config |-> [servers |-> MarkDefault(cfg.servers, name), default_server |-> name],
          ret |-> "True"]

\* ConfigManager.set_default_server: the configuration afterwards and the returned value.
SetDefaultServer(cfg, name) ==
    IF ~HasServer(cfg.servers, name)
    THEN [config |-> cfg, ret |-> "False"]
    ELSE [config |-> [servers |-> MarkDefault(UnsetAll(cfg.servers), name),
                      default_server |-> name],
          ret |-> "True"]

NoCall == [op |-> "none", name |-> "", set_default |-> FALSE, ret |-> "None"]

\* The values of the other subsystems' variables while they are not in use.
NoSel == [cmd |-> "none", kind |-> "none", id |-> <<>>]
UrlForms == {<<>>, <<"/">>, <<"/", "a", "p", "i">>, <<"/", "a", "p", "i", "/">>}
NotStored == <<"?">>
NoneStored == [f \in UrlForms |-> NotStored]
NoResponse == [net |-> "none", status |-> 0, body |-> "none"]
NoApiCall == [method |-> "none", resp |-> NoResponse]
NoMsg == [wrap |-> FALSE, text |-> "", code |-> 0, body |-> "none"]
NoOutcome == [kind |-> "none", value |-> "none", exc |-> "none", msg |-> NoMsg]
NoArgs == [api_key |-> NULL, runtime_id |-> NULL, session_api_key |-> NULL]
MainHost == [runtime |-> FALSE, id |-> NULL]
NoRequest == [args |-> NoArgs, host |-> MainHost, headers |-> {}]
NoFaults == <<"none", "none">>
NoDownload ==
    [phase |-> "idle", pos |-> 0, fetched |-> <<>>, results |-> <<>>, downloaded_files |-> <<>>]
NoArchive == [written |-> FALSE, files |-> <<>>]
\* ConversationManager.__init__
NewManager ==
    [conversations |-> <<>>, current_page |-> 0, page_size |-> 20, next_page_id |-> NULL,
     page_ids |-> <<NULL>>]
NoSnapshot == [current_page |-> 0, conversations |-> <<>>, next_page_id |-> NULL]
NoNav ==
    [op |-> "none", requested |-> FALSE, ok |-> FALSE, page_id |-> NULL, expected |-> NULL,
     before |-> NoSnapshot, ids_before |-> <<NULL>>]
NoPick == [cmd |-> "none", text |-> <<>>, accepted |-> FALSE, conv |-> NULL]
NoEnv == [test |-> "true", perm |-> "ok", exists |-> FALSE, default_flag |-> FALSE]
NoKeyRun ==
    [oh |-> <<>>, openhands |-> <<>>, stored_key |-> <<>>, pc |-> "idle", attempts |-> <<>>,
     store_calls |-> <<>>, returned |-> <<>>, prompts |-> 0]
NotAdding ==
    [env |-> NoEnv, pc |-> "idle", default |-> FALSE, answers |-> <<>>, called |-> FALSE,
     result |-> "none"]

\* A fresh ConfigManager with no config.json; no resolution is under way.
ConfigInit ==
    /\ config = EmptyConfig
    /\ pre = EmptyConfig
    /\ last = NoCall
    /\ sel = NoSel
    /\ urlBase = <<>>
    /\ stored = NoneStored
    /\ call = NoApiCall
    /\ out = NoOutcome
    /\ req = NoRequest
    /\ faults = NoFaults
    /\ raised = "none"
    /\ changes = <<>>
    /\ dl = NoDownload
    /\ archive = NoArchive
    /\ mgr = NewManager
    /\ loaded = NULL
    /\ nav = NoNav
    /\ picked = NoPick
    /\ adding = NotAdding
    /\ keyrun = NoKeyRun
    /\ token = <<>>
    /\ listing = <<>>
    /\ rpc = "idle"
    /\ ret = [some |-> FALSE, id |-> <<>>]
    /\ echo = <<>>
    /\ calls = 0

add_server ==
    \E name \in Names, cred \in Credentials, set_default \in BOOLEAN :
        /\ config' = AddServer(config, name, cred[1], cred[2], set_default)
        /\ pre' = config
        /\ last' = [op |-> "add_server", name |-> name, set_default |-> set_default,
                    ret |-> "None"]
        /\ UNCHANGED <<resolveVars, cmdVars, urlVars, apiVars, faultVars, downloadVars, managerVars, addVars, keyVars>>

remove_server ==
    \E name \in Names :
        LET r == RemoveServer(config, name)
        IN  /\ config' = r.config
            /\ pre' = config
            /\ last' = [op |-> "remove_server", name |-> name, set_default |-> FALSE,
                        ret |-> r.ret]
            /\ UNCHANGED <<resolveVars, cmdVars, urlVars, apiVars, faultVars, downloadVars, managerVars, addVars, keyVars>>

set_default_server ==
    \E name \in Names :
        LET r == SetDefaultServer(config, name)
        IN  /\ config' = r.config
            /\ pre' = config
            /\ last' = [op |-> "set_default_server", name |-> name, set_default |-> FALSE,
                        ret |-> r.ret]
            /\ UNCHANGED <<resolveVars, cmdVars, urlVars, apiVars, faultVars, downloadVars, managerVars, addVars, keyVars>>

ConfigNext == add_server \/ remove_server \/ set_default_server

ConfigSpec == ConfigInit /\ [][ConfigNext]_vars

(***************************************************************************)
(* resolve_conversation_id.  Strings are sequences of one-character        *)
(* strings, so that int(), len(), startswith() and slicing are computed.   *)
(***************************************************************************)

\* len(conv_id) < 36: the length of a full UUID
FullIdLen == 36
\* matches[:5]
ShowMax == 5
\* match.get("title", "Untitled")[:40]
TitleCut == 40

Digits == <<"0", "1", "2", "3", "4", "5", "6", "7", "8", "9">>
IsDigit(c) == \E d \in 1..10 : Digits[d] = c
DigitVal(c) == (CHOOSE d \in 1..10 : Digits[d] = c) - 1
IsSpace(c) == c = " "

RECURSIVE LStrip(_)
LStrip(s) == IF Len(s) > 0 /\ IsSpace(s[1]) THEN LStrip(Tail(s)) ELSE s

RECURSIVE RStrip(_)
RStrip(s) ==
    IF Len(s) > 0 /\ IsSpace(s[Len(s)]) THEN RStrip(SubSeq(s, 1, Len(s) - 1)) ELSE s

\* the decimal value of a sequence of digits
RECURSIVE Decimal(_)
Decimal(ds) ==
    IF Len(ds) = 0 THEN 0
    ELSE 10 * Decimal(SubSeq(ds, 1, Len(ds) - 1)) + DigitVal(ds[Len(ds)])

\* Python int(s) on a str: surrounding whitespace is stripped, one sign is allowed,
\* then digits with single underscores between them; anything else is a ValueError.
ParseInt(s) ==
    LET t == RStrip(LStrip(s))
        signed == Len(t) > 0 /\ t[1] \in {"+", "-"}
        body == IF signed THEN Tail(t) ELSE t
        wellFormed ==
            /\ Len(body) > 0
            /\ IsDigit(body[1])
            /\ IsDigit(body[Len(body)])
            /\ \A i \in 1..Len(body) : IsDigit(body[i]) \/ body[i] = "_"
            /\ \A i \in 1..(Len(body) - 1) : ~(body[i] = "_" /\ body[i + 1] = "_")
        magnitude == Decimal(SelectSeq(body, IsDigit))
    IN  IF wellFormed
        THEN [ok |-> TRUE, val |-> IF signed /\ t[1] = "-" THEN 0 - magnitude ELSE magnitude]
        ELSE [ok |-> FALSE, val |-> 0]

\* Python str(n) for an int
RECURSIVE Str(_)
Str(n) ==
    IF n < 0 THEN <<"-">> \o Str(0 - n)
    ELSE IF n < 10 THEN <<Digits[n + 1]>>
    ELSE Str(n \div 10) \o <<Digits[(n % 10) + 1]>>

\* s.startswith(p)
StartsWith(s, p) == Len(p) <= Len(s) /\ SubSeq(s, 1, Len(p)) = p

\* s[:n]
Take(s, n) == SubSeq(s, 1, IF Len(s) < n THEN Len(s) ELSE n)

\* head followed by the character c up to length n
Pad(head, c, n) == [i \in 1..n |-> IF i <= Len(head) THEN head[i] ELSE c]

Untitled == <<"U", "n", "t", "i", "t", "l", "e", "d">>

\* c.get("conversation_id", "")
GetId(c) == IF c.has_id THEN c.conversation_id ELSE <<>>

\* c.get("title", "Untitled")
GetTitle(c) == IF c.has_title THEN c.title ELSE Untitled

\* The conversation IDs of the model: they share the prefix "1", which int()
\* accepts, and the prefix "1a", which it rejects; IdB is longer than a UUID.
IdA == Pad(<<"1", "a", "b">>, "0", FullIdLen)
IdB == Pad(<<"1", "a", "c">>, "0", FullIdLen + 1)

\* The entries a listing is drawn from, by key: two with an ID (one with a title
\* longer than the cut, one without title) and one without conversation_id.
EntryKeys == {"A", "B", "N"}
Entry(k) ==
    CASE k = "A" -> [has_id |-> TRUE, conversation_id |-> IdA,
                     has_title |-> TRUE, title |-> Pad(<<>>, "t", TitleCut + 1)]
      [] k = "B" -> [has_id |-> TRUE, conversation_id |-> IdB,
                     has_title |-> FALSE, title |-> <<>>]
      [] k = "N" -> [has_id |-> FALSE, conversation_id |-> <<>>,
                     has_title |-> TRUE, title |-> <<"T">>]

\* The listings search_conversations answers with, as sequences of entry keys.
Listings == UNION {[1..n -> EntryKeys] : n \in 0..MaxList}

\* result.get("results", []) for the listing held in the state
Conversations(keys) == [i \in 1..Len(keys) |-> Entry(keys[i])]

\* The tokens of the model: the decimal forms of the numbers around the listing's
\* bounds, other spellings int() accepts or rejects, short and long prefixes of
\* the IDs, the IDs themselves, and full-length strings that are not IDs.
Numbers == ((0 - 2)..(MaxList + 1)) \cup {10, 12, 100}
NumberTokens == {Str(n) : n \in Numbers}
SpellingTokens ==
    { <<" ", "1">>, <<"2", " ">>, <<"+", "1">>, <<"0", "2">>, <<"1", "_", "0">>,
      <<"-">>, <<"_", "1">>, <<"1", "_">>, <<"-", " ", "1">>,
      Pad(<<>>, "0", FullIdLen - 1) \o <<"1">>,
      <<"2">> \o Pad(<<>>, " ", FullIdLen) }
PrefixTokens ==
    UNION { {SubSeq(id, 1, k) : k \in {0, 1, 2, 3, FullIdLen - 1, FullIdLen, Len(id)}}
            : id \in {IdA, IdB} }
OtherTokens == {<<"x">>, Pad(<<"x">>, "y", FullIdLen), Pad(<<"x">>, "y", FullIdLen - 1)}
Tokens == NumberTokens \cup SpellingTokens \cup PrefixTokens \cup OtherTokens

\* One click.echo message.
Msg(kind, number, hi, tok, id, title) ==
    [kind |-> kind, number |-> number, lo |-> 1, hi |-> hi,
     token |-> tok, id |-> id, title |-> title]

None == [some |-> FALSE, id |-> <<>>]
Some(id) == [some |-> TRUE, id |-> id]

\* return conversation_id if conversation_id else None, for c.get("conversation_id")
IdOrNone(c) == IF c.has_id /\ Len(c.conversation_id) > 0 THEN Some(c.conversation_id) ELSE None

\* A plausible slip: the upper bound tested with >= instead of >.
ResolveNumberOffByOne(conv_number, conversations) ==
    IF conv_number < 1 \/ conv_number >= Len(conversations)
    THEN [ret |-> None,
          echo |-> <<Msg("out_of_range", conv_number, Len(conversations), <<>>, <<>>, <<>>)>>,
          calls |-> 1]
    ELSE [ret |-> IdOrNone(conversations[conv_number]), echo |-> <<>>, calls |-> 1]

\* the branch taken when int() succeeds (lines 75-91)
ResolveNumber(conv_number, conversations) ==
    IF conv_number < 1 \/ conv_number > Len(conversations)
    THEN [ret |-> None,
          echo |-> <<Msg("out_of_range", conv_number, Len(conversations), <<>>, <<>>, <<>>)>>,
          calls |-> 1]
    ELSE [ret |-> IdOrNone(conversations[conv_number]), echo |-> <<>>, calls |-> 1]

\* A plausible slip: the IDs compared with == instead of startswith.
ResolvePrefixExact(conv_id, conversations) ==
    LET matches == SelectSeq(conversations, LAMBDA c : GetId(c) = conv_id)
    IN  IF Len(matches) = 0
        THEN [ret |-> None,
              echo |-> <<Msg("not_found", 0, 0, conv_id, <<>>, <<>>)>>,
              calls |-> 1]
        ELSE [ret |-> IdOrNone(matches[1]), echo |-> <<>>, calls |-> 1]

\* A plausible slip: every match is shown, without the cut at five.
ResolvePrefixShowsAll(conv_id, conversations) ==
    LET matches == SelectSeq(conversations, LAMBDA c : StartsWith(GetId(c), conv_id))
    IN  IF Len(matches) = 0
        THEN [ret |-> None,
              echo |-> <<Msg("not_found", 0, 0, conv_id, <<>>, <<>>)>>,
              calls |-> 1]
        ELSE IF Len(matches) > 1
        THEN [ret |-> None,
              echo |-> <<Msg("ambiguous", 0, 0, conv_id, <<>>, <<>>)>> \o
                       [i \in 1..Len(matches) |->
                           Msg("candidate", 0, 0, <<>>, GetId(matches[i]),
                               Take(GetTitle(matches[i]), TitleCut))],
              calls |-> 1]
        ELSE [ret |-> IdOrNone(matches[1]), echo |-> <<>>, calls |-> 1]

\* the branch taken for a non-number shorter than a full ID (lines 98-128)
ResolvePrefix(conv_id, conversations) ==
    LET matches == SelectSeq(conversations, LAMBDA c : StartsWith(GetId(c), conv_id))
        shown == Take(matches, ShowMax)
    IN  IF Len(matches) = 0
        THEN [ret |-> None,
              echo |-> <<Msg("not_found", 0, 0, conv_id, <<>>, <<>>)>>,
              calls |-> 1]
        ELSE IF Len(matches) > 1
        THEN [ret |-> None,
              echo |-> <<Msg("ambiguous", 0, 0, conv_id, <<>>, <<>>)>> \o
                       [i \in 1..Len(shown) |->
                           Msg("candidate", 0, 0, <<>>, GetId(shown[i]),
                               Take(GetTitle(shown[i]), TitleCut))],
              calls |-> 1]
        ELSE [ret |-> IdOrNone(matches[1]), echo |-> <<>>, calls |-> 1]

\* A plausible slip: the length test written <= 36, so that a full ID is looked up.
ResolveLooksUpFullId(conversation_id_or_number, conversations) ==
    LET parsed == ParseInt(conversation_id_or_number)
    IN  IF parsed.ok
        THEN ResolveNumber(parsed.val, conversations)
        ELSE IF Len(conversation_id_or_number) <= FullIdLen
        THEN ResolvePrefix(conversation_id_or_number, conversations)
        ELSE [ret |-> Some(conversation_id_or_number), echo |-> <<>>, calls |-> 0]

\* resolve_conversation_id(api, conversation_id_or_number) when search_conversations
\* answers with `conversations`: the returned value, the messages and the API calls.
resolve_conversation_id(conversation_id_or_number, conversations) ==
    LET parsed == ParseInt(conversation_id_or_number)
    IN  IF parsed.ok
        THEN ResolveNumber(parsed.val, conversations)
        ELSE IF Len(conversation_id_or_number) < FullIdLen
        THEN ResolvePrefix(conversation_id_or_number, conversations)
        ELSE [ret |-> Some(conversation_id_or_number), echo |-> <<>>, calls |-> 0]

\* One call of resolve_conversation_id, for any token and any listing; the
\* configuration store is not touched.
ResolveInit ==
    /\ config = EmptyConfig
    /\ pre = EmptyConfig
    /\ last = NoCall
    /\ sel = NoSel
    /\ urlBase = <<>>
    /\ stored = NoneStored
    /\ call = NoApiCall
    /\ out = NoOutcome
    /\ req = NoRequest
    /\ faults = NoFaults
    /\ raised = "none"
    /\ changes = <<>>
    /\ dl = NoDownload
    /\ archive = NoArchive
    /\ mgr = NewManager
    /\ loaded = NULL
    /\ nav = NoNav
    /\ picked = NoPick
    /\ adding = NotAdding
    /\ keyrun = NoKeyRun
    /\ token \in Tokens
    /\ listing \in Listings
    /\ rpc = "call"
    /\ ret = None
    /\ echo = <<>>
    /\ calls = 0

Resolve ==
    /\ rpc = "call"
    /\ LET r == resolve_conversation_id(token, Conversations(listing))
       IN  /\ ret' = r.ret
           /\ echo' = r.echo
           /\ calls' = r.calls
    /\ rpc' = "done"
    /\ UNCHANGED <<token, listing, configVars, cmdVars, urlVars, apiVars, faultVars, downloadVars, managerVars, addVars, keyVars>>

ResolveNext == Resolve

ResolveSpec == ResolveInit /\ [][ResolveNext]_vars

(***************************************************************************)
(* resolve_conversation_id when search_conversations may raise.  The first *)
(* call is made inside try ... except ValueError, the second inside the    *)
(* except block.                                                           *)
(***************************************************************************)

\* what search_conversations raises (ohc/api.py:39-49), "none" when it returns
Faults == {"none", "HTTPError", "ConnectionError", "Timeout", "Exception", "JSONDecodeError"}

\* requests' JSONDecodeError is a ValueError
ValueErrors == {"JSONDecodeError"}

FaultListings == UNION {[1..n -> EntryKeys] : n \in 0..MaxFaultList}

\* conversations[i] of Python, i 0-based and negative from the end
PyIndexOk(i, conversations) == i >= 0 - Len(conversations) /\ i < Len(conversations)
PyIndex(i, conversations) ==
    IF i >= 0 THEN conversations[i + 1] ELSE conversations[Len(conversations) + i + 1]

Returned(r, n) == [ret |-> r.ret, echo |-> r.echo, calls |-> n, raised |-> "none"]
Raised(e, n) == [ret |-> None, echo |-> <<>>, calls |-> n, raised |-> e]

\* the except ValueError block (lines 93-131), entered after n calls; the next
\* call raises g
ResolveAsId(conv_id, conversations, n, g) ==
    IF Len(conv_id) < FullIdLen
    THEN IF g # "none" THEN Raised(g, n + 1)
         ELSE Returned(ResolvePrefix(conv_id, conversations), n + 1)
    ELSE Returned([ret |-> Some(conv_id), echo |-> <<>>], n)

\* A plausible slip: the range test of line 81 left out.
ResolveWithoutRangeCheck(conversation_id_or_number, conversations, f) ==
    LET parsed == ParseInt(conversation_id_or_number)
    IN  IF parsed.ok
        THEN IF f[1] = "none"
             THEN IF PyIndexOk(parsed.val - 1, conversations)
                  THEN Returned([ret |-> IdOrNone(PyIndex(parsed.val - 1, conversations)),
                                 echo |-> <<>>], 1)
                  ELSE Raised("IndexError", 1)
             ELSE IF f[1] \in ValueErrors
             THEN ResolveAsId(conversation_id_or_number, conversations, 1, f[2])
             ELSE Raised(f[1], 1)
        ELSE ResolveAsId(conversation_id_or_number, conversations, 0, f[1])

\* resolve_conversation_id(api, conversation_id_or_number) when the calls of
\* search_conversations raise f[1], f[2] or answer with `conversations`
ResolveWithAnswers(conversation_id_or_number, conversations, f) ==
    LET parsed == ParseInt(conversation_id_or_number)
    IN  IF parsed.ok
        THEN IF f[1] = "none"
             THEN IF parsed.val < 1 \/ parsed.val > Len(conversations)
                  THEN Returned(ResolveNumber(parsed.val, conversations), 1)
                  ELSE IF PyIndexOk(parsed.val - 1, conversations)
                  THEN Returned([ret |-> IdOrNone(PyIndex(parsed.val - 1, conversations)),
                                 echo |-> <<>>], 1)
                  ELSE Raised("IndexError", 1)
             ELSE IF f[1] \in ValueErrors
             THEN ResolveAsId(conversation_id_or_number, conversations, 1, f[2])
             ELSE Raised(f[1], 1)
        ELSE ResolveAsId(conversation_id_or_number, conversations, 0, f[1])

ResolveFaultInit ==
    /\ config = EmptyConfig
    /\ pre = EmptyConfig
    /\ last = NoCall
    /\ sel = NoSel
    /\ urlBase = <<>>
    /\ stored = NoneStored
    /\ call = NoApiCall
    /\ out = NoOutcome
    /\ req = NoRequest
    /\ token \in Tokens
    /\ listing \in FaultListings
    /\ faults \in [1..2 -> Faults]
    /\ rpc = "call"
    /\ ret = None
    /\ echo = <<>>
    /\ calls = 0
    /\ raised = "none"
    /\ changes = <<>>
    /\ dl = NoDownload
    /\ archive = NoArchive
    /\ mgr = NewManager
    /\ loaded = NULL
    /\ nav = NoNav
    /\ picked = NoPick
    /\ adding = NotAdding
    /\ keyrun = NoKeyRun

ResolveAnswered ==
    /\ rpc = "call"
    /\ LET r == ResolveWithAnswers(token, Conversations(listing), faults)
       IN  /\ ret' = r.ret
           /\ echo' = r.echo
           /\ calls' = r.calls
           /\ raised' = r.raised
    /\ rpc' = "done"
    /\ UNCHANGED <<token, listing, faults, configVars, cmdVars, urlVars, apiVars, downloadVars, managerVars, addVars, keyVars>>

ResolveFaultNext == ResolveAnswered

ResolveFaultSpec == ResolveFaultInit /\ [][ResolveFaultNext]_vars

(***************************************************************************)
(* The conversation commands show, wake, ws-download, ws-changes and       *)
(* trajectory (ohc/conversation_commands.py).  Each resolves its token     *)
(* with the same inlined code; CommandSpec runs it beside                  *)
(* resolve_conversation_id on the same token and listing.                  *)
(***************************************************************************)

\* if len(conv_id) <= 8: the commands' bound of a short ID
ShortIdLen == 8

CommandNames == {"show", "wake", "ws-download", "ws-changes", "trajectory"}

\* conv_id = conv_data.get('conversation_id'): the ID the command goes on with
Selected(c) ==
    IF c.has_id THEN [kind |-> "id", id |-> c.conversation_id]
    ELSE [kind |-> "none_id", id |-> <<>>]

\* The resolution inlined in each command: what it selects, or how it fails.
CommandResolve(conversation_id_or_number, conversations) ==
    LET parsed == ParseInt(conversation_id_or_number)
        conv_id == conversation_id_or_number
        matches == SelectSeq(conversations, LAMBDA c : StartsWith(GetId(c), conv_id))
    IN  IF parsed.ok
        THEN IF parsed.val < 1 \/ parsed.val > Len(conversations)
             THEN [kind |-> "out_of_range", id |-> <<>>]
             ELSE Selected(conversations[parsed.val])
        ELSE IF Len(conv_id) <= ShortIdLen
        THEN IF Len(matches) = 0 THEN [kind |-> "not_found", id |-> <<>>]
             ELSE IF Len(matches) > 1 THEN [kind |-> "ambiguous", id |-> <<>>]
             ELSE Selected(matches[1])
        ELSE [kind |-> "id", id |-> conv_id]

\* One of the commands resolves the token the resolver has just resolved.
command ==
    /\ rpc = "done"
    /\ sel = NoSel
    /\ \E cmd \in CommandNames :
           LET r == CommandResolve(token, Conversations(listing))
           IN  sel' = [cmd |-> cmd, kind |-> r.kind, id |-> r.id]
    /\ UNCHANGED <<resolveVars, configVars, urlVars, apiVars, faultVars, downloadVars, managerVars, addVars, keyVars>>

CommandNext == Resolve \/ command

CommandSpec == ResolveInit /\ [][CommandNext]_vars

(***************************************************************************)
(* server add (ohc/server_commands.py): the --url value as it is stored.   *)
(***************************************************************************)

\* s.endswith(suffix)
EndsWith(s, suffix) ==
    Len(suffix) <= Len(s) /\ SubSeq(s, Len(s) - Len(suffix) + 1, Len(s)) = suffix

ApiSlash == <<"/", "a", "p", "i", "/">>
ApiNoSlash == <<"/", "a", "p", "i">>

\* lines 41-46: "Ensure URL ends with /api/ if it doesn't already"
NormalizeUrl(url) ==
    IF ~EndsWith(url, ApiSlash) /\ ~EndsWith(url, ApiNoSlash)
    THEN IF EndsWith(url, <<"/">>)
         THEN url \o <<"a", "p", "i", "/">>
         ELSE url \o ApiSlash
    ELSE url

\* config_manager.add_server(name, url, apikey, default) on a store without
\* profiles, then load_config(): the url of the stored profile
LoadedUrl(url) == AddServer(EmptyConfig, "s", url, "k", FALSE).servers[1].url

\* The base URLs of the model (the empty --url is prompted for, line 32).
UrlChars == {"h", "/", "a", "p", "i"}
Bases == UNION {[1..n -> UrlChars] : n \in 1..MaxBase}

UrlInit ==
    /\ config = EmptyConfig
    /\ pre = EmptyConfig
    /\ last = NoCall
    /\ token = <<>>
    /\ listing = <<>>
    /\ rpc = "idle"
    /\ ret = [some |-> FALSE, id |-> <<>>]
    /\ echo = <<>>
    /\ calls = 0
    /\ sel = NoSel
    /\ urlBase \in Bases
    /\ stored = NoneStored
    /\ call = NoApiCall
    /\ out = NoOutcome
    /\ req = NoRequest
    /\ faults = NoFaults
    /\ raised = "none"
    /\ changes = <<>>
    /\ dl = NoDownload
    /\ archive = NoArchive
    /\ mgr = NewManager
    /\ loaded = NULL
    /\ nav = NoNav
    /\ picked = NoPick
    /\ adding = NotAdding
    /\ keyrun = NoKeyRun

\* server add --url (urlBase + form), for a form not tried yet
server_add ==
    /\ \E f \in UrlForms :
           /\ stored[f] = NotStored
           /\ stored' = [stored EXCEPT ![f] = LoadedUrl(NormalizeUrl(urlBase \o f))]
    /\ UNCHANGED <<urlBase, configVars, resolveVars, cmdVars, apiVars, faultVars, downloadVars, managerVars, addVars, keyVars>>

UrlNext == server_add

UrlSpec == UrlInit /\ [][UrlNext]_vars

(***************************************************************************)
(* OpenHandsAPI (ohc/api.py).  A call is answered by a network error or by *)
(* a response with a status and a body; its outcome is the value returned  *)
(* or the exception raised, with the parts of the exception's message.     *)
(* The client keeps nothing from one call to the next, so a behaviour is   *)
(* one call.                                                               *)
(***************************************************************************)

NetErrors == {"ConnectionError", "Timeout"}
Statuses == {200, 201, 204, 302, 400, 401, 403, 404, 500, 503}
Bodies == {"object", "code_object", "list", "null", "text"}

Responses ==
    {[net |-> n, status |-> 0, body |-> "none"] : n \in NetErrors}
    \cup {[net |-> "none", status |-> s, body |-> b] : s \in Statuses, b \in Bodies}

Return(v) == [kind |-> "return", value |-> v, exc |-> "none", msg |-> NoMsg]

Raise(exc, text, code, body) ==
    [kind |-> "raise", value |-> "none", exc |-> exc,
     msg |-> [wrap |-> FALSE, text |-> text, code |-> code, body |-> body]]

\* raise Exception(f"API call failed - {str(e)}")
Wrap(e) == [e EXCEPT !.exc = "Exception", !.msg.wrap = TRUE]

\* session.get / session.post failing without a response
NetError(r) == Raise(r.net, r.net, 0, "none")

\* response.raise_for_status() raises for a 4xx or 5xx status
IsHttpError(status) == status >= 400 /\ status < 600
HTTPError(r) == Raise("HTTPError", "HTTPError", r.status, "none")

\* response.json()
Json(r) ==
    IF r.body = "text" THEN Raise("JSONDecodeError", "JSONDecodeError", 0, "none")
    ELSE IF r.body = "null" THEN Return("None")
    ELSE Return(r.body)

\* try: ... except Exception as e: raise Exception(f"API call failed - ...")
Wrapped(o) == IF o.kind = "raise" THEN Wrap(o) ELSE o

TestConnectionAcceptsAny2xx(r) ==
    IF r.net # "none" THEN Return("False")
    ELSE IF r.status >= 200 /\ r.status < 300 THEN Return("True")
    ELSE Return("False")

\* return response.status_code == 200; except Exception: return False
test_connection(r) ==
    IF r.net # "none" THEN Return("False")
    ELSE IF r.status = 200 THEN Return("True")
    ELSE Return("False")

PermissionText ==
    "API key does not have permission to access conversations. Please ensure you're using a full API key from your OpenHands settings."

SearchTreats403As401(r) ==
    IF r.net # "none" THEN NetError(r)
    ELSE IF IsHttpError(r.status)
    THEN IF r.status \in {401, 403} THEN Raise("Exception", PermissionText, 0, "none")
         ELSE HTTPError(r)
    ELSE Json(r)

search_conversations(r) ==
    IF r.net # "none" THEN NetError(r)
    ELSE IF IsHttpError(r.status)
    THEN IF r.status = 401 THEN Raise("Exception", PermissionText, 0, "none")
         ELSE HTTPError(r)
    ELSE Json(r)

get_conversation(r) ==
    IF r.net # "none" THEN NetError(r)
    ELSE IF IsHttpError(r.status) THEN HTTPError(r)
    ELSE Json(r)

StartChecksErrorStatusOnly(r) ==
    Wrapped(IF r.net # "none" THEN NetError(r)
            ELSE IF IsHttpError(r.status) THEN HTTPError(r)
            ELSE Json(r))

start_conversation(r) ==
    Wrapped(IF r.net # "none" THEN NetError(r)
            ELSE IF r.status # 200
            THEN Raise("Exception", "HTTP {status_code}: {text}", r.status, r.body)
            ELSE IF IsHttpError(r.status) THEN HTTPError(r)
            ELSE Json(r))

GitText == "Git repository not available or corrupted"
ChangesFailedText == "Failed to get changes: HTTP {status_code}"

ChangesRaisesOn404(r) ==
    IF r.net # "none" THEN Wrap(NetError(r))
    ELSE IF r.status = 500 THEN Wrap(Raise("Exception", GitText, 0, "none"))
    ELSE IF IsHttpError(r.status)
    THEN Raise("Exception", ChangesFailedText, r.status, "none")
    ELSE Wrapped(Json(r))

get_conversation_changes(r) ==
    IF r.net # "none" THEN Wrap(NetError(r))
    ELSE IF r.status = 404 THEN Return("[]")
    ELSE IF r.status = 500 THEN Wrap(Raise("Exception", GitText, 0, "none"))
    ELSE IF IsHttpError(r.status)
    THEN IF r.status = 404 THEN Return("[]")
         ELSE IF r.status = 500 THEN Raise("Exception", GitText, 0, "none")
         ELSE Raise("Exception", ChangesFailedText, r.status, "none")
    ELSE Wrapped(Json(r))

AuthText == "Authentication failed - invalid session API key"

get_file_content(r) ==
    IF r.net # "none" THEN Wrap(NetError(r))
    ELSE IF IsHttpError(r.status)
    THEN IF r.status = 404
         THEN Raise("Exception", "File not found: {file_path}", 0, "none")
         ELSE IF r.status = 401 THEN Raise("Exception", AuthText, 0, "none")
         ELSE IF r.status = 500
         THEN Raise("Exception", "Server error - file may be inaccessible", 0, "none")
         ELSE Raise("Exception", "Failed to get file content: HTTP {status_code}",
                    r.status, "none")
    ELSE LET result == Json(r)
         IN  IF result.kind = "raise" THEN Wrap(result)
             ELSE IF result.value = "code_object" THEN Return("result['code']")
             ELSE Return("str(result)")

download_workspace_archive(r) ==
    IF r.net # "none" THEN Wrap(NetError(r))
    ELSE IF IsHttpError(r.status)
    THEN IF r.status = 404
         THEN Raise("Exception", "Workspace not found for conversation {conversation_id}",
                    0, "none")
         ELSE IF r.status = 401 THEN Raise("Exception", AuthText, 0, "none")
         ELSE IF r.status = 500
         THEN Raise("Exception", "Server error - workspace may be inaccessible", 0, "none")
         ELSE Raise("Exception", "Failed to download workspace: HTTP {status_code}",
                    r.status, "none")
    ELSE Return("response.content")

TrajectoryWithout500Branch(r) ==
    IF r.net # "none" THEN Wrap(NetError(r))
    ELSE IF IsHttpError(r.status)
    THEN IF r.status = 404
         THEN Raise("Exception", "Trajectory not found for conversation {conversation_id}",
                    0, "none")
         ELSE IF r.status = 401 THEN Raise("Exception", AuthText, 0, "none")
         ELSE Raise("Exception", "Failed to get trajectory: HTTP {status_code}",
                    r.status, "none")
    ELSE Wrapped(Json(r))

get_trajectory(r) ==
    IF r.net # "none" THEN Wrap(NetError(r))
    ELSE IF IsHttpError(r.status)
    THEN IF r.status = 404
         THEN Raise("Exception", "Trajectory not found for conversation {conversation_id}",
                    0, "none")
         ELSE IF r.status = 401 THEN Raise("Exception", AuthText, 0, "none")
         ELSE IF r.status = 500
         THEN Raise("Exception", "Server error - trajectory may be inaccessible", 0, "none")
         ELSE Raise("Exception", "Failed to get trajectory: HTTP {status_code}",
                    r.status, "none")
    ELSE Wrapped(Json(r))

\* the client's api_key and the arguments runtime_id and session_api_key
ApiKeys == {"k1", "k2"}
RuntimeIds == {NULL, "", "rt1", "rt2"}
SessionKeys == {NULL, "", "sk1", "sk2"}
RuntimeArgs == [api_key : ApiKeys, runtime_id : RuntimeIds, session_api_key : SessionKeys]

Header(name, scheme, key) == [name |-> name, scheme |-> scheme, key |-> key]

RuntimeRequestSendsBoth(a) ==
    IF Truthy(a.runtime_id)
    THEN [args |-> a,
          host |-> [runtime |-> TRUE, id |-> a.runtime_id],
          headers |-> IF Truthy(a.session_api_key)
                      THEN {Header("X-Session-API-Key", "", a.session_api_key),
                            Header("Authorization", "Bearer", a.api_key)}
                      ELSE {Header("Authorization", "Bearer", a.api_key)}]
    ELSE [args |-> a, host |-> MainHost, headers |-> {}]

\* if runtime_id: ... if session_api_key: headers['X-Session-API-Key'] = ...
\* else: headers['Authorization'] = f'Bearer {self.api_key}'; else: headers = {}
RuntimeRequest(a) ==
    IF Truthy(a.runtime_id)
    THEN [args |-> a,
          host |-> [runtime |-> TRUE, id |-> a.runtime_id],
          headers |-> IF Truthy(a.session_api_key)
                      THEN {Header("X-Session-API-Key", "", a.session_api_key)}
                      ELSE {Header("Authorization", "Bearer", a.api_key)}]
    ELSE [args |-> a, host |-> MainHost, headers |-> {}]

\* the outcome of a method of the client on a response
ApiResult(method, r) ==
    CASE method = "test_connection" -> test_connection(r)
      [] method = "search_conversations" -> search_conversations(r)
      [] method = "get_conversation" -> get_conversation(r)
      [] method = "start_conversation" -> start_conversation(r)
      [] method = "get_conversation_changes" -> get_conversation_changes(r)
      [] method = "get_file_content" -> get_file_content(r)
      [] method = "download_workspace_archive" -> download_workspace_archive(r)
      [] method = "get_trajectory" -> get_trajectory(r)

ApiInit ==
    /\ config = EmptyConfig
    /\ pre = EmptyConfig
    /\ last = NoCall
    /\ token = <<>>
    /\ listing = <<>>
    /\ rpc = "idle"
    /\ ret = [some |-> FALSE, id |-> <<>>]
    /\ echo = <<>>
    /\ calls = 0
    /\ sel = NoSel
    /\ urlBase = <<>>
    /\ stored = NoneStored
    /\ call = NoApiCall
    /\ out = NoOutcome
    /\ req = NoRequest
    /\ faults = NoFaults
    /\ raised = "none"
    /\ changes = <<>>
    /\ dl = NoDownload
    /\ archive = NoArchive
    /\ mgr = NewManager
    /\ loaded = NULL
    /\ nav = NoNav
    /\ picked = NoPick
    /\ adding = NotAdding
    /\ keyrun = NoKeyRun

\* a caller calls test_connection; the service answers with r
TestConnection ==
    /\ call = NoApiCall
    /\ \E r \in Responses :
           /\ call' = [method |-> "test_connection", resp |-> r]
           /\ out' = test_connection(r)
    /\ req' = NoRequest
    /\ UNCHANGED <<configVars, resolveVars, cmdVars, urlVars, faultVars, downloadVars, managerVars, addVars, keyVars>>

\* a caller calls search_conversations; the service answers with r
SearchConversations ==
    /\ call = NoApiCall
    /\ \E r \in Responses :
           /\ call' = [method |-> "search_conversations", resp |-> r]
           /\ out' = search_conversations(r)
    /\ req' = NoRequest
    /\ UNCHANGED <<configVars, resolveVars, cmdVars, urlVars, faultVars, downloadVars, managerVars, addVars, keyVars>>

\* a caller calls get_conversation; the service answers with r
GetConversation ==
    /\ call = NoApiCall
    /\ \E r \in Responses :
           /\ call' = [method |-> "get_conversation", resp |-> r]
           /\ out' = get_conversation(r)
    /\ req' = NoRequest
    /\ UNCHANGED <<configVars, resolveVars, cmdVars, urlVars, faultVars, downloadVars, managerVars, addVars, keyVars>>

\* a caller calls start_conversation; the service answers with r
StartConversation ==
    /\ call = NoApiCall
    /\ \E r \in Responses :
           /\ call' = [method |-> "start_conversation", resp |-> r]
           /\ out' = start_conversation(r)
    /\ req' = NoRequest
    /\ UNCHANGED <<configVars, resolveVars, cmdVars, urlVars, faultVars, downloadVars, managerVars, addVars, keyVars>>

\* a caller calls get_conversation_changes; the service answers with r
GetConversationChanges ==
    /\ call = NoApiCall
    /\ \E r \in Responses :
           /\ call' = [method |-> "get_conversation_changes", resp |-> r]
           /\ out' = get_conversation_changes(r)
    /\ \E a \in RuntimeArgs : req' = RuntimeRequest(a)
    /\ UNCHANGED <<configVars, resolveVars, cmdVars, urlVars, faultVars, downloadVars, managerVars, addVars, keyVars>>

\* a caller calls get_file_content; the service answers with r
GetFileContent ==
    /\ call = NoApiCall
    /\ \E r \in Responses :
           /\ call' = [method |-> "get_file_content", resp |-> r]
           /\ out' = get_file_content(r)
    /\ \E a \in RuntimeArgs : req' = RuntimeRequest(a)
    /\ UNCHANGED <<configVars, resolveVars, cmdVars, urlVars, faultVars, downloadVars, managerVars, addVars, keyVars>>

\* a caller calls download_workspace_archive; the service answers with r
DownloadWorkspaceArchive ==
    /\ call = NoApiCall
    /\ \E r \in Responses :
           /\ call' = [method |-> "download_workspace_archive", resp |-> r]
           /\ out' = download_workspace_archive(r)
    /\ \E a \in RuntimeArgs : req' = RuntimeRequest(a)
    /\ UNCHANGED <<configVars, resolveVars, cmdVars, urlVars, faultVars, downloadVars, managerVars, addVars, keyVars>>

\* a caller calls get_trajectory; the service answers with r
GetTrajectory ==
    /\ call = NoApiCall
    /\ \E r \in Responses :
           /\ call' = [method |-> "get_trajectory", resp |-> r]
           /\ out' = get_trajectory(r)
    /\ \E a \in RuntimeArgs : req' = RuntimeRequest(a)
    /\ UNCHANGED <<configVars, resolveVars, cmdVars, urlVars, faultVars, downloadVars, managerVars, addVars, keyVars>>

ApiNext ==
    \/ TestConnection
    \/ SearchConversations
    \/ GetConversation
    \/ StartConversation
    \/ GetConversationChanges
    \/ GetFileContent
    \/ DownloadWorkspaceArchive
    \/ GetTrajectory

ApiSpec == ApiInit /\ [][ApiNext]_vars

(***************************************************************************)
(* ConversationManager.download_conversation_files                         *)
(* (conversation_manager/conversation_manager.py): the loop over the       *)
(* changed files and the zip file built from downloaded_files.  Writing a  *)
(* fetched file to the temporary directory is taken to succeed.            *)
(***************************************************************************)

FilePaths == {"a", "b", "c"}
ChangeStatuses == {"M", "D"}

\* the listings of changed files: each path once, as git reports them
ChangeListings ==
    {c \in UNION {[1..n -> [path : FilePaths, status : ChangeStatuses]] : n \in 0..MaxChanges} :
        \A i, j \in 1..Len(c) : c[i].path = c[j].path => i = j}

\* A plausible slip: break instead of continue in the except block.
FetchOneStopsOnFailure(change, ok, d, count) ==
    IF change.status = "D" THEN [d EXCEPT !.pos = d.pos + 1]
    ELSE IF ok
    THEN [d EXCEPT !.pos = d.pos + 1,
                   !.fetched = Append(d.fetched, change.path),
                   !.results = Append(d.results, TRUE),
                   !.downloaded_files = Append(d.downloaded_files, change.path)]
    ELSE [d EXCEPT !.pos = count + 1,
                   !.fetched = Append(d.fetched, change.path),
                   !.results = Append(d.results, FALSE)]

\* one turn of the loop (lines 829-864): a deleted file is skipped, any other is
\* fetched with get_file_content; ok tells whether the try block went through
FetchOne(change, ok, d, count) ==
    IF change.status = "D" THEN [d EXCEPT !.pos = d.pos + 1]
    ELSE IF ok
    THEN [d EXCEPT !.pos = d.pos + 1,
                   !.fetched = Append(d.fetched, change.path),
                   !.results = Append(d.results, TRUE),
                   !.downloaded_files = Append(d.downloaded_files, change.path)]
    ELSE [d EXCEPT !.pos = d.pos + 1,
                   !.fetched = Append(d.fetched, change.path),
                   !.results = Append(d.results, FALSE)]

DownloadInit ==
    /\ config = EmptyConfig
    /\ pre = EmptyConfig
    /\ last = NoCall
    /\ sel = NoSel
    /\ urlBase = <<>>
    /\ stored = NoneStored
    /\ call = NoApiCall
    /\ out = NoOutcome
    /\ req = NoRequest
    /\ token = <<>>
    /\ listing = <<>>
    /\ rpc = "idle"
    /\ ret = [some |-> FALSE, id |-> <<>>]
    /\ echo = <<>>
    /\ calls = 0
    /\ faults = NoFaults
    /\ raised = "none"
    /\ changes \in ChangeListings
    /\ dl = NoDownload
    /\ archive = NoArchive
    /\ mgr = NewManager
    /\ loaded = NULL
    /\ nav = NoNav
    /\ picked = NoPick
    /\ adding = NotAdding
    /\ keyrun = NoKeyRun

\* lines 786-821: the number is checked, the conversation and its changes are
\* requested; the loop is entered when all of it went through and changes is
\* not empty
download_conversation_files ==
    /\ dl.phase = "idle"
    /\ \E ready \in BOOLEAN :
           dl' = IF ready /\ changes # <<>>
                 THEN [dl EXCEPT !.phase = "loop", !.pos = 1]
                 ELSE [dl EXCEPT !.phase = "done"]
    /\ UNCHANGED <<changes, archive, configVars, resolveVars, cmdVars, urlVars,
                   apiVars, faultVars, managerVars, addVars, keyVars>>

\* lines 829-864: the next changed file
fetch_file ==
    /\ dl.phase = "loop"
    /\ dl.pos <= Len(changes)
    /\ \E ok \in BOOLEAN : dl' = FetchOne(changes[dl.pos], ok, dl, Len(changes))
    /\ UNCHANGED <<changes, archive, configVars, resolveVars, cmdVars, urlVars,
                   apiVars, faultVars, managerVars, addVars, keyVars>>

\* lines 866-886: after the loop
write_archive ==
    /\ dl.phase = "loop"
    /\ dl.pos > Len(changes)
    /\ archive' = IF dl.downloaded_files = <<>> THEN NoArchive
                  ELSE [written |-> TRUE, files |-> dl.downloaded_files]
    /\ dl' = [dl EXCEPT !.phase = "done"]
    /\ UNCHANGED <<changes, configVars, resolveVars, cmdVars, urlVars, apiVars, faultVars, managerVars, addVars, keyVars>>

DownloadNext == download_conversation_files \/ fetch_file \/ write_archive

DownloadSpec == DownloadInit /\ [][DownloadNext]_vars

(***************************************************************************)
(* ConversationManager (conversation_manager/conversation_manager.py):     *)
(* the pages of the interactive manager and its numbered commands.         *)
(***************************************************************************)

ConvIds == {"c1", "c2"}
PageIds == {"p1", "p2"}
Heights == {10, 40}

\* the conversations of one answer: each conversation once
PageContents ==
    {c \in UNION {[1..n -> ConvIds] : n \in 0..MaxPageLen} :
        \A i, j \in 1..Len(c) : c[i] = c[j] => i = j}

\* what search_conversations does on one call: it raises, or it answers
Answers ==
    {[ok |-> FALSE, results |-> <<>>, next_page_id |-> NULL]}
    \cup [ok : {TRUE}, results : PageContents, next_page_id : PageIds \cup {NULL}]

\* page_size = min(20, max(5, height - 10))
PageSizeFor(height) ==
    LET available_lines == IF height - 10 > 5 THEN height - 10 ELSE 5
    IN  IF available_lines < 20 THEN available_lines ELSE 20

Snapshot(m) ==
    [current_page |-> m.current_page, conversations |-> m.conversations,
     next_page_id |-> m.next_page_id]

\* load_conversations(page_id): the manager afterwards and the returned value
load_conversations(m, height, ans) ==
    LET sized == [m EXCEPT !.page_size = PageSizeFor(height)]
    IN  IF ans.ok
        THEN [mgr |-> [sized EXCEPT !.conversations = ans.results,
                                    !.next_page_id = ans.next_page_id],
              ok |-> TRUE]
        ELSE [mgr |-> sized, ok |-> FALSE]

Outcome(m, requested, ok, page_id) ==
    [mgr |-> m, requested |-> requested, ok |-> ok, page_id |-> page_id]

refresh_conversations(m, height, ans) ==
    LET current_page_id ==
            IF m.current_page < Len(m.page_ids) THEN PyIndex(m.current_page, m.page_ids)
            ELSE NULL
        r == load_conversations(m, height, ans)
    IN  Outcome(r.mgr, TRUE, r.ok, current_page_id)

\* A plausible change: the page ID of the next page is recorded afresh on every call.
NextPageRecordsFreshId(m, height, ans) ==
    IF Truthy(m.next_page_id)
    THEN LET ids == IF m.current_page + 1 >= Len(m.page_ids)
                    THEN Append(m.page_ids, m.next_page_id)
                    ELSE [m.page_ids EXCEPT ![m.current_page + 2] = m.next_page_id]
             moved == [m EXCEPT !.page_ids = ids, !.current_page = m.current_page + 1]
             page_id == PyIndex(moved.current_page, moved.page_ids)
             r == load_conversations(moved, height, ans)
         IN  IF r.ok THEN Outcome(r.mgr, TRUE, TRUE, page_id)
             ELSE Outcome([r.mgr EXCEPT !.current_page = @ - 1], TRUE, FALSE, page_id)
    ELSE Outcome(m, FALSE, FALSE, NULL)

next_page(m, height, ans) ==
    IF Truthy(m.next_page_id)
    THEN LET ids == IF m.current_page + 1 >= Len(m.page_ids)
                    THEN Append(m.page_ids, m.next_page_id)
                    ELSE m.page_ids
             moved == [m EXCEPT !.page_ids = ids, !.current_page = m.current_page + 1]
             page_id == PyIndex(moved.current_page, moved.page_ids)
             r == load_conversations(moved, height, ans)
         IN  IF r.ok THEN Outcome(r.mgr, TRUE, TRUE, page_id)
             ELSE Outcome([r.mgr EXCEPT !.current_page = @ - 1], TRUE, FALSE, page_id)
    ELSE Outcome(m, FALSE, FALSE, NULL)

\* A plausible slip: the page is not put back when the load fails.
PrevPageKeepsPageOnFailure(m, height, ans) ==
    IF m.current_page > 0
    THEN LET moved == [m EXCEPT !.current_page = m.current_page - 1]
             page_id == PyIndex(moved.current_page, moved.page_ids)
             r == load_conversations(moved, height, ans)
         IN  Outcome(r.mgr, TRUE, r.ok, page_id)
    ELSE Outcome(m, FALSE, FALSE, NULL)

prev_page(m, height, ans) ==
    IF m.current_page > 0
    THEN LET moved == [m EXCEPT !.current_page = m.current_page - 1]
             page_id == PyIndex(moved.current_page, moved.page_ids)
             r == load_conversations(moved, height, ans)
         IN  IF r.ok THEN Outcome(r.mgr, TRUE, TRUE, page_id)
             ELSE Outcome([r.mgr EXCEPT !.current_page = @ + 1], TRUE, FALSE, page_id)
    ELSE Outcome(m, FALSE, FALSE, NULL)

\* what the navigation call op left behind, for the properties
Navigated(op, o) ==
    [op |-> op, requested |-> o.requested, ok |-> o.ok, page_id |-> o.page_id,
     expected |-> loaded,
     before |-> IF o.requested /\ ~o.ok THEN Snapshot(mgr) ELSE NoSnapshot,
     ids_before |-> mgr.page_ids]

\* display_conversations / format_conversations_table: the number printed beside
\* the j-th conversation of the page (j from 1)
DisplayNumber(m, j) == Str(m.current_page * m.page_size + j)

\* w, s, f, t, a <num>: conv_num = int(parts[1]), then the range test of the handler
NumberCommand(m, cmd, text) ==
    LET parsed == ParseInt(text)
    IN  IF parsed.ok /\ 1 <= parsed.val /\ parsed.val <= Len(m.conversations)
        THEN [cmd |-> cmd, text |-> text, accepted |-> TRUE,
              conv |-> PyIndex(parsed.val - 1, m.conversations)]
        ELSE [cmd |-> cmd, text |-> text, accepted |-> FALSE, conv |-> NULL]

\* what the user may type after the command letter
Typed(m) ==
    {DisplayNumber(m, j) : j \in 1..Len(m.conversations)}
    \cup {Str(n) : n \in 1..(MaxPageLen + 1)}
    \cup {<<"x">>}

ManagerInit ==
    /\ config = EmptyConfig
    /\ pre = EmptyConfig
    /\ last = NoCall
    /\ sel = NoSel
    /\ urlBase = <<>>
    /\ stored = NoneStored
    /\ call = NoApiCall
    /\ out = NoOutcome
    /\ req = NoRequest
    /\ token = <<>>
    /\ listing = <<>>
    /\ rpc = "idle"
    /\ ret = [some |-> FALSE, id |-> <<>>]
    /\ echo = <<>>
    /\ calls = 0
    /\ faults = NoFaults
    /\ raised = "none"
    /\ changes = <<>>
    /\ dl = NoDownload
    /\ archive = NoArchive
    /\ mgr = NewManager
    /\ loaded = NULL
    /\ nav = NoNav
    /\ picked = NoPick
    /\ adding = NotAdding
    /\ keyrun = NoKeyRun

Refresh ==
    /\ \E height \in Heights, ans \in Answers :
           LET o == refresh_conversations(mgr, height, ans)
           IN  /\ mgr' = o.mgr
               /\ nav' = Navigated("refresh", o)
               /\ loaded' = IF o.ok THEN ans.next_page_id ELSE loaded
    /\ picked' = NoPick
    /\ UNCHANGED <<configVars, resolveVars, cmdVars, urlVars, apiVars, faultVars,
                   downloadVars, addVars, keyVars>>

NextPage ==
    /\ mgr.current_page < MaxPages
    /\ \E height \in Heights, ans \in Answers :
           LET o == next_page(mgr, height, ans)
           IN  /\ mgr' = o.mgr
               /\ nav' = Navigated("next", o)
               /\ loaded' = IF o.ok THEN ans.next_page_id ELSE loaded
    /\ picked' = NoPick
    /\ UNCHANGED <<configVars, resolveVars, cmdVars, urlVars, apiVars, faultVars,
                   downloadVars, addVars, keyVars>>

PrevPage ==
    /\ \E height \in Heights, ans \in Answers :
           LET o == prev_page(mgr, height, ans)
           IN  /\ mgr' = o.mgr
               /\ nav' = Navigated("prev", o)
               /\ loaded' = IF o.ok THEN ans.next_page_id ELSE loaded
    /\ picked' = NoPick
    /\ UNCHANGED <<configVars, resolveVars, cmdVars, urlVars, apiVars, faultVars,
                   downloadVars, addVars, keyVars>>

\* one of the commands w, s, f, t, a with an argument
NumberedCommand ==
    /\ \E cmd \in {"w", "s", "f", "t", "a"}, text \in Typed(mgr) :
           picked' = NumberCommand(mgr, cmd, text)
    /\ nav' = NoNav
    /\ UNCHANGED <<mgr, loaded, configVars, resolveVars, cmdVars, urlVars, apiVars,
                   faultVars, downloadVars, addVars, keyVars>>

ManagerNext == Refresh \/ NextPage \/ PrevPage \/ NumberedCommand

ManagerSpec == ManagerInit /\ [][ManagerNext]_vars

\* the paging calls alone: any sequence of refresh_conversations, next_page and
\* prev_page with any answers of the server
NavigationNext == Refresh \/ NextPage \/ PrevPage

NavigationSpec == ManagerInit /\ [][NavigationNext]_vars

(***************************************************************************)
(* server add (ohc/server_commands.py), lines 38-93: the prompts, the      *)
(* connection test and the call of ConfigManager.add_server.  click.Abort  *)
(* is a RuntimeError, so an `except Exception` clause catches it.          *)
(***************************************************************************)

\* what one invocation meets: test_connection returns True or False or raises,
\* search_conversations(limit=1) returns or raises, the name is in the store or
\* not, --default is given or not
AddEnvs ==
    [test : {"true", "false", "raises"}, perm : {"ok", "raises"}, exists : BOOLEAN,
     default_flag : BOOLEAN]

\* the answer to 'Save server configuration anyway?' at lines 55, 67 or 72:
\* a no raises click.Abort, inside the try block at 55 and 67, in the except
\* block at 72
AfterSaveAnswer(a, yes) ==
    LET answered == [a EXCEPT !.answers = Append(a.answers, IF yes THEN "y" ELSE "n")]
    IN  IF yes THEN [answered EXCEPT !.pc = "existing"]
        ELSE IF a.pc \in {"ask_failed", "ask_permission"}
        THEN [answered EXCEPT !.pc = "ask_exception"]
        ELSE [answered EXCEPT !.pc = "done", !.result = "aborted"]

AddInit ==
    /\ config = EmptyConfig
    /\ pre = EmptyConfig
    /\ last = NoCall
    /\ sel = NoSel
    /\ urlBase = <<>>
    /\ stored = NoneStored
    /\ call = NoApiCall
    /\ out = NoOutcome
    /\ req = NoRequest
    /\ token = <<>>
    /\ listing = <<>>
    /\ rpc = "idle"
    /\ ret = [some |-> FALSE, id |-> <<>>]
    /\ echo = <<>>
    /\ calls = 0
    /\ faults = NoFaults
    /\ raised = "none"
    /\ changes = <<>>
    /\ dl = NoDownload
    /\ archive = NoArchive
    /\ mgr = NewManager
    /\ loaded = NULL
    /\ nav = NoNav
    /\ picked = NoPick
    /\ \E e \in AddEnvs : adding = [NotAdding EXCEPT !.env = e, !.pc = "start"]
    /\ keyrun = NoKeyRun

\* line 38: --default given, or 'Set as default server?' is asked
add ==
    /\ adding.pc = "start"
    /\ adding' = IF adding.env.default_flag
                 THEN [adding EXCEPT !.default = TRUE, !.pc = "test"]
                 ELSE [adding EXCEPT !.pc = "ask_default"]
    /\ UNCHANGED <<configVars, resolveVars, cmdVars, urlVars, apiVars, faultVars,
                   downloadVars, managerVars, keyVars>>

\* line 39: the answer to 'Set as default server?'
answer_default ==
    /\ adding.pc = "ask_default"
    /\ \E yes \in BOOLEAN : adding' = [adding EXCEPT !.default = yes, !.pc = "test"]
    /\ UNCHANGED <<configVars, resolveVars, cmdVars, urlVars, apiVars, faultVars,
                   downloadVars, managerVars, keyVars>>

\* lines 52-71: test_connection and the permission check, up to the prompt
connection_test ==
    /\ adding.pc = "test"
    /\ adding' =
           [adding EXCEPT !.pc =
               IF adding.env.test = "raises" THEN "ask_exception"
               ELSE IF adding.env.test = "false" THEN "ask_failed"
               ELSE IF adding.env.perm = "raises" THEN "ask_permission"
               ELSE "existing"]
    /\ UNCHANGED <<configVars, resolveVars, cmdVars, urlVars, apiVars, faultVars,
                   downloadVars, managerVars, keyVars>>

\* lines 55, 67, 72: the answer to 'Save server configuration anyway?'
answer_save ==
    /\ adding.pc \in {"ask_failed", "ask_permission", "ask_exception"}
    /\ \E yes \in BOOLEAN : adding' = AfterSaveAnswer(adding, yes)
    /\ UNCHANGED <<configVars, resolveVars, cmdVars, urlVars, apiVars, faultVars,
                   downloadVars, managerVars, keyVars>>

\* lines 76-82: the name exists, with the answer to 'Overwrite?'
check_existing ==
    /\ adding.pc = "existing"
    /\ \E overwrite \in BOOLEAN :
           adding' = IF adding.env.exists /\ ~overwrite
                     THEN [adding EXCEPT !.pc = "done", !.result = "cancelled"]
                     ELSE [adding EXCEPT !.pc = "save"]
    /\ UNCHANGED <<configVars, resolveVars, cmdVars, urlVars, apiVars, faultVars,
                   downloadVars, managerVars, keyVars>>

\* lines 85-93: config_manager.add_server, which may raise
save ==
    /\ adding.pc = "save"
    /\ \E saved \in BOOLEAN :
           adding' = [adding EXCEPT !.pc = "done", !.called = TRUE,
                                    !.result = IF saved THEN "saved" ELSE "aborted"]
    /\ UNCHANGED <<configVars, resolveVars, cmdVars, urlVars, apiVars, faultVars,
                   downloadVars, managerVars, keyVars>>

AddNext ==
    \/ add
    \/ answer_default
    \/ connection_test
    \/ answer_save
    \/ check_existing
    \/ save

AddSpec == AddInit /\ [][AddNext]_vars

(***************************************************************************)
(* APIKeyManager.get_valid_key                                             *)
(* (conversation_manager/conversation_manager.py).  A key is a string of   *)
(* characters; a variable that is not set, and a config file without a     *)
(* key, give the empty string (both are falsy).                            *)
(***************************************************************************)

OhKeys == {<<>>, <<"a">>}
OpenhandsKeys == {<<>>, <<"b">>}
StoredKeys == {<<>>, <<"c">>}
TypedKeys == {<<>>, <<" ">>, <<"d">>, <<" ", "d", " ">>}

\* s.strip()
Strip(s) == RStrip(LStrip(s))

EnvKeyPrefersOpenhands(oh, openhands) ==
    IF Len(openhands) > 0 THEN [source |-> "OPENHANDS_API_KEY", key |-> openhands]
    ELSE [source |-> "OH_API_KEY", key |-> oh]

\* env_key = os.getenv("OH_API_KEY") or os.getenv("OPENHANDS_API_KEY")
EnvKey(oh, openhands) ==
    IF Len(oh) > 0 THEN [source |-> "OH_API_KEY", key |-> oh]
    ELSE [source |-> "OPENHANDS_API_KEY", key |-> openhands]

\* api = OpenHandsAPI(key); api.test_connection(); api.search_conversations(limit=1)
Attempt(source, key, test, search) ==
    [source |-> source, key |-> key, test |-> test,
     search |-> IF ~test THEN "skipped" ELSE IF search THEN "ok" ELSE "raises"]

KeyInit ==
    /\ config = EmptyConfig
    /\ pre = EmptyConfig
    /\ last = NoCall
    /\ sel = NoSel
    /\ urlBase = <<>>
    /\ stored = NoneStored
    /\ call = NoApiCall
    /\ out = NoOutcome
    /\ req = NoRequest
    /\ token = <<>>
    /\ listing = <<>>
    /\ rpc = "idle"
    /\ ret = [some |-> FALSE, id |-> <<>>]
    /\ echo = <<>>
    /\ calls = 0
    /\ faults = NoFaults
    /\ raised = "none"
    /\ changes = <<>>
    /\ dl = NoDownload
    /\ archive = NoArchive
    /\ mgr = NewManager
    /\ loaded = NULL
    /\ nav = NoNav
    /\ picked = NoPick
    /\ adding = NotAdding
    /\ \E oh \in OhKeys, openhands \in OpenhandsKeys, stored_key \in StoredKeys :
           keyrun = [NoKeyRun EXCEPT !.oh = oh, !.openhands = openhands,
                                     !.stored_key = stored_key, !.pc = "env"]

\* lines 398-410: the key of the environment
check_env_key ==
    /\ keyrun.pc = "env"
    /\ LET c == EnvKey(keyrun.oh, keyrun.openhands)
       IN  IF Len(c.key) > 0
           THEN \E test \in BOOLEAN, search \in BOOLEAN :
                    LET a == Attempt(c.source, c.key, test, search)
                    IN  keyrun' =
                            IF a.search = "ok"
                            THEN [keyrun EXCEPT !.attempts = Append(@, a),
                                                !.returned = c.key, !.pc = "done"]
                            ELSE [keyrun EXCEPT !.attempts = Append(@, a), !.pc = "stored"]
           ELSE keyrun' = [keyrun EXCEPT !.pc = "stored"]
    /\ UNCHANGED <<configVars, resolveVars, cmdVars, urlVars, apiVars, faultVars,
                   downloadVars, managerVars, addVars>>

\* lines 413-422: the key of the config file
check_stored_key ==
    /\ keyrun.pc = "stored"
    /\ IF Len(keyrun.stored_key) > 0
       THEN \E test \in BOOLEAN, search \in BOOLEAN :
                LET a == Attempt("stored", keyrun.stored_key, test, search)
                IN  keyrun' =
                        IF a.search = "ok"
                        THEN [keyrun EXCEPT !.attempts = Append(@, a),
                                            !.returned = keyrun.stored_key, !.pc = "done"]
                        ELSE [keyrun EXCEPT !.attempts = Append(@, a), !.pc = "prompt"]
       ELSE keyrun' = [keyrun EXCEPT !.pc = "prompt"]
    /\ UNCHANGED <<configVars, resolveVars, cmdVars, urlVars, apiVars, faultVars,
                   downloadVars, managerVars, addVars>>

\* lines 429-446: one turn of the loop that asks for a key; store_key may raise
prompt_for_key ==
    /\ keyrun.pc = "prompt"
    /\ keyrun.prompts < MaxPrompts
    /\ \E typed \in TypedKeys, test \in BOOLEAN, search \in BOOLEAN, written \in BOOLEAN :
           LET api_key == Strip(typed)
               a == Attempt("prompt", api_key, test, search)
               asked == [keyrun EXCEPT !.prompts = @ + 1]
           IN  keyrun' =
                   IF Len(api_key) = 0 THEN asked
                   ELSE IF a.search # "ok" THEN [asked EXCEPT !.attempts = Append(@, a)]
                   ELSE IF ~written
                   THEN [asked EXCEPT !.attempts = Append(@, a),
                                      !.store_calls = Append(@, api_key)]
                   ELSE [asked EXCEPT !.attempts = Append(@, a),
                                      !.store_calls = Append(@, api_key),
                                      !.returned = api_key, !.pc = "done"]
    /\ UNCHANGED <<configVars, resolveVars, cmdVars, urlVars, apiVars, faultVars,
                   downloadVars, managerVars, addVars>>

\* lines 447-449: Ctrl-C at the prompt
interrupt ==
    /\ keyrun.pc = "prompt"
    /\ keyrun' = [keyrun EXCEPT !.pc = "exit"]
    /\ UNCHANGED <<configVars, resolveVars, cmdVars, urlVars, apiVars, faultVars,
                   downloadVars, managerVars, addVars>>

KeyNext == check_env_key \/ check_stored_key \/ prompt_for_key \/ interrupt

KeySpec == KeyInit /\ [][KeyNext]_vars

(***************************************************************************)
(* Properties of ConfigManager, checked under ConfigSpec.                  *)
(***************************************************************************)

\* the profiles of cfg whose default flag is true
Defaults(cfg) == {i \in 1..Len(cfg.servers) : cfg.servers[i].default}

\* C1: default_server is null or names a stored profile whose default flag is true.
\* The code violates it: add_server(a, False) twice leaves default_server = a with
\* a's flag false, and remove_server(a) then leaves default_server dangling.
C1_DefaultServerNamesDefaultProfile ==
    \/ config.default_server = NULL
    \/ \E i \in 1..Len(config.servers) :
           /\ config.servers[i].name = config.default_server
           /\ config.servers[i].default

\* C7: whenever servers is non-empty exactly one profile has default = true.
\* The code violates it: re-adding the default profile with set_default = False
\* leaves no default profile.
C7_ExactlyOneDefault ==
    Len(config.servers) > 0 => Cardinality(Defaults(config)) = 1

\* C8: at most one profile in servers has default = true.
C8_AtMostOneDefault ==
    Cardinality(Defaults(config)) <= 1

\* C8's case: add_server with set_default = True took the default away from
\* another stored profile.
C8_Witness ==
    /\ last.op = "add_server"
    /\ last.set_default
    /\ Len(config.servers) >= 3
    /\ \E i \in 1..Len(pre.servers) :
           pre.servers[i].default /\ pre.servers[i].name # last.name
    /\ Cardinality(Defaults(config)) = 1

\* C9: when remove_server(name) removes the profile default_server names, then
\* default_server names the first remaining profile (insertion order), whose flag
\* is true, or is null when none remains.  The code decides by the removed
\* profile's flag, not by default_server, so it fails once C1 is broken.
C9_RemoveDefaultReassigns ==
    (/\ last.op = "remove_server"
     /\ last.ret = "True"
     /\ pre.default_server = last.name)
    => LET rest == DelServer(pre.servers, last.name)
       IN  IF Len(rest) > 0
           THEN /\ config.default_server = rest[1].name
                /\ \E i \in 1..Len(config.servers) :
                       /\ config.servers[i].name = rest[1].name
                       /\ config.servers[i].default
           ELSE config.default_server = NULL

\* C10: add_server on a store that holds no profile ends with the added profile
\* default and default_server naming it, for both values of set_default.  The code
\* tests default_server, which C1's failure can leave dangling on an empty store.
C10_FirstProfileBecomesDefault ==
    (last.op = "add_server" /\ Len(pre.servers) = 0)
    => /\ config.default_server = last.name
       /\ \E i \in 1..Len(config.servers) :
              /\ config.servers[i].name = last.name
              /\ config.servers[i].default

\* C11: when default_server names a stored profile, add_server with
\* set_default = False (any name) leaves default_server unchanged and the profile
\* it names still default.  The code violates it when the name added is the
\* default profile's own: the profile is rewritten with default = False.
C11_AddWithoutDefaultKeepsDefault ==
    (/\ last.op = "add_server"
     /\ ~last.set_default
     /\ HasServer(pre.servers, pre.default_server))
    => /\ config.default_server = pre.default_server
       /\ \E i \in 1..Len(config.servers) :
              /\ config.servers[i].name = pre.default_server
              /\ config.servers[i].default

\* C12: set_default_server(name) for a stored name returns True; afterwards the
\* named profile is the only default one, default_server = name, and the name,
\* url and api_key of every profile are as before.
C12_SetDefaultMovesDefault ==
    (last.op = "set_default_server" /\ HasServer(pre.servers, last.name))
    => /\ last.ret = "True"
       /\ config.default_server = last.name
       /\ Len(config.servers) = Len(pre.servers)
       /\ \A i \in 1..Len(config.servers) :
              /\ config.servers[i].name = pre.servers[i].name
              /\ config.servers[i].url = pre.servers[i].url
              /\ config.servers[i].api_key = pre.servers[i].api_key
              /\ config.servers[i].default = (config.servers[i].name = last.name)

\* C12's case: the default moves from one stored profile to another, with three
\* profiles stored.
C12_Witness ==
    /\ last.op = "set_default_server"
    /\ last.ret = "True"
    /\ Len(pre.servers) = 3
    /\ HasServer(pre.servers, pre.default_server)
    /\ pre.default_server # last.name
    /\ pre.servers[IndexOf(pre.servers, pre.default_server)].default
    /\ config.default_server = last.name

\* C13: remove_server and set_default_server with a name that is not stored
\* return False and leave servers and default_server as they were.
C13_AbsentNameChangesNothing ==
    (/\ last.op \in {"remove_server", "set_default_server"}
     /\ ~HasServer(pre.servers, last.name))
    => (last.ret = "False" /\ config = pre)

\* C13's case: remove_server of a name that is not stored, on a store that holds
\* other profiles and a default.
C13_Witness ==
    /\ last.op = "remove_server"
    /\ ~HasServer(pre.servers, last.name)
    /\ Len(pre.servers) >= 2
    /\ pre.default_server # NULL
    /\ last.ret = "False"
    /\ config = pre

(***************************************************************************)
(* Properties of server add, checked under UrlSpec.                        *)
(***************************************************************************)

\* a base URL: not empty, without trailing slash and without the /api segment
IsBase(b) == Len(b) > 0 /\ ~EndsWith(b, <<"/">>) /\ ~EndsWith(b, ApiNoSlash)

\* C14: for a base URL b, the urls b, b/, b/api and b/api/ are all stored as the
\* same url, which ends in /api/ and not in /api/api/.  The code stores b/api as
\* it is given, without the trailing slash.
C14_AllFormsStoreSameApiUrl ==
    (IsBase(urlBase) /\ \A f \in UrlForms : stored[f] # NotStored)
    => \A f, g \in UrlForms :
           /\ stored[f] = stored[g]
           /\ EndsWith(stored[f], ApiSlash)
           /\ ~EndsWith(stored[f], ApiNoSlash \o ApiSlash)

(***************************************************************************)
(* Properties of the conversation commands, checked under CommandSpec.     *)
(***************************************************************************)

\* what resolve_conversation_id selected, or how it failed
ResolveOutcome ==
    IF ret.some THEN [kind |-> "id", id |-> ret.id]
    ELSE IF echo = <<>> THEN [kind |-> "none_id", id |-> <<>>]
    ELSE [kind |-> echo[1].kind, id |-> <<>>]

\* C15: each command selects the conversation ID resolve_conversation_id
\* selects, or fails the same way; a token of 9 to 35 characters that is not a
\* number is resolved as a prefix.  The commands take every token longer than 8
\* characters as a full ID.
C15_CommandsResolveLikeResolver ==
    sel.cmd # "none" => [kind |-> sel.kind, id |-> sel.id] = ResolveOutcome

(***************************************************************************)
(* Properties of OpenHandsAPI, checked under ApiSpec.                      *)
(***************************************************************************)

Answered == call.resp.net = "none"
HttpFailed == Answered /\ call.resp.status >= 400 /\ call.resp.status < 600
JsonBody == call.resp.body # "text"
JsonValue == IF call.resp.body = "null" THEN "None" ELSE call.resp.body

\* the exception the transport raised reaches the caller as it was raised
RaisesTransportError ==
    /\ out.kind = "raise"
    /\ ~out.msg.wrap
    /\ IF Answered
       THEN out.exc = "HTTPError" /\ out.msg.code = call.resp.status
       ELSE out.exc = call.resp.net /\ out.msg.text = call.resp.net

\* C16: search_conversations turns HTTP 401 into an error that says the API
\* key lacks permission and to use a full API key; every other HTTP error
\* status and every network error is raised as the transport raised it; a
\* successful response returns its JSON.
C16_SearchErrorMapping ==
    call.method = "search_conversations" =>
        /\ (Answered /\ call.resp.status = 401) =>
               /\ out.kind = "raise"
               /\ out.exc = "Exception"
               /\ out.msg.text =
                      "API key does not have permission to access conversations. Please ensure you're using a full API key from your OpenHands settings."
        /\ ((HttpFailed /\ call.resp.status # 401) \/ ~Answered) => RaisesTransportError
        /\ (Answered /\ ~HttpFailed /\ JsonBody) => out = Return(JsonValue)

C16_Witness ==
    /\ call.method = "search_conversations"
    /\ call.resp.status = 403
    /\ out.exc = "HTTPError"

\* C17: get_conversation_changes returns the empty list on HTTP 404, raises an
\* error that says the git repository is not available on HTTP 500, raises an
\* error that carries the status code on every other HTTP error status, and
\* returns the response's JSON otherwise; HTTP 404 is never an error.
C17_ChangesErrorMapping ==
    call.method = "get_conversation_changes" =>
        /\ (Answered /\ call.resp.status = 404) => out = Return("[]")
        /\ (Answered /\ call.resp.status = 500) =>
               /\ out.kind = "raise"
               /\ out.msg.text = "Git repository not available or corrupted"
        /\ (HttpFailed /\ call.resp.status \notin {404, 500}) =>
               /\ out.kind = "raise"
               /\ out.msg.code = call.resp.status
        /\ (Answered /\ ~HttpFailed /\ JsonBody) => out = Return(JsonValue)

C17_Witness ==
    /\ call.method = "get_conversation_changes"
    /\ call.resp.status = 404
    /\ out.kind = "return"

\* the four cases of an HTTP error status
StatusClass(status) ==
    IF status = 404 THEN "not_found"
    ELSE IF status = 401 THEN "authentication"
    ELSE IF status = 500 THEN "server_error"
    ELSE "other"

\* the words of each method's not-found and server-error messages
NotFoundText(method) ==
    CASE method = "get_file_content" -> "File not found: {file_path}"
      [] method = "download_workspace_archive" ->
             "Workspace not found for conversation {conversation_id}"
      [] method = "get_trajectory" ->
             "Trajectory not found for conversation {conversation_id}"

ServerErrorText(method) ==
    CASE method = "get_file_content" -> "Server error - file may be inaccessible"
      [] method = "download_workspace_archive" ->
             "Server error - workspace may be inaccessible"
      [] method = "get_trajectory" -> "Server error - trajectory may be inaccessible"

\* C18: get_file_content, download_workspace_archive and get_trajectory turn
\* HTTP 404 into a not-found error, 401 into an authentication-failed error,
\* 500 into a server-error (inaccessible) error and every other HTTP error
\* status into a failure that carries the status code; the messages of two
\* different cases differ, and no HTTP error status returns a value.
C18_RuntimeErrorMapping ==
    (/\ call.method \in {"get_file_content", "download_workspace_archive", "get_trajectory"}
     /\ HttpFailed) =>
        /\ out.kind = "raise"
        /\ call.resp.status = 404 => out.msg.text = NotFoundText(call.method)
        /\ call.resp.status = 401 =>
               out.msg.text = "Authentication failed - invalid session API key"
        /\ call.resp.status = 500 => out.msg.text = ServerErrorText(call.method)
        /\ call.resp.status \notin {404, 401, 500} => out.msg.code = call.resp.status
        /\ \A r \in Responses :
               (/\ r.net = "none"
                /\ r.status >= 400
                /\ StatusClass(r.status) # StatusClass(call.resp.status))
               => ApiResult(call.method, r).msg.text # out.msg.text

C18_Witness ==
    /\ call.method = "get_trajectory"
    /\ call.resp.status = 500
    /\ out.kind = "raise"

\* C19: start_conversation returns the response's JSON only when the status is
\* exactly 200; every other status, the other 2xx ones included, raises one
\* wrapped error whose message carries the status code and the response body.
C19_StartOnlyOn200 ==
    call.method = "start_conversation" =>
        /\ out.kind = "return" =>
               Answered /\ call.resp.status = 200 /\ out.value = JsonValue
        /\ (Answered /\ call.resp.status # 200) =>
               /\ out.kind = "raise"
               /\ out.exc = "Exception"
               /\ out.msg.wrap
               /\ out.msg.code = call.resp.status
               /\ out.msg.body = call.resp.body

C19_Witness ==
    /\ call.method = "start_conversation"
    /\ call.resp.status = 201
    /\ out.kind = "raise"

\* C20: get_conversation raises a not-found error when the service answers
\* HTTP 200 with the body null, returns the JSON object otherwise, and raises
\* HTTP and network errors as the transport raised them.  The code returns
\* None for the null body.
C20_NullBodyIsNotFound ==
    call.method = "get_conversation" =>
        /\ (Answered /\ ~HttpFailed /\ call.resp.body = "null") => out.kind = "raise"
        /\ (Answered /\ ~HttpFailed /\ call.resp.body \notin {"null", "text"}) =>
               out = Return(call.resp.body)
        /\ (HttpFailed \/ ~Answered) => RaisesTransportError

\* C21: test_connection returns True exactly when the request completes with
\* HTTP status 200; every other status and every exception of the request
\* returns False, and nothing is raised.
C21_TestConnectionTrueOnlyOn200 ==
    call.method = "test_connection" =>
        /\ out.kind = "return"
        /\ out.value \in {"True", "False"}
        /\ out.value = "True" <=> (Answered /\ call.resp.status = 200)

C21_Witness ==
    /\ call.method = "test_connection"
    /\ ~Answered
    /\ out = Return("False")

RuntimeMethods ==
    {"get_conversation_changes", "get_file_content", "download_workspace_archive",
     "get_trajectory"}

\* C22: get_conversation_changes, get_file_content, download_workspace_archive
\* and get_trajectory called with a runtime host send, as per-request headers,
\* exactly X-Session-API-Key = the session key when one is supplied (and no
\* Authorization header), and exactly Authorization = Bearer <client api_key>
\* when it is absent; without a runtime host they add no per-request header
\* and the request goes to the main host.  None and the empty string both count
\* as not supplied.
C22_RuntimeRequestHeaders ==
    call.method \in RuntimeMethods =>
        LET a == req.args
            hasHost == a.runtime_id \notin {NULL, ""}
            hasKey == a.session_api_key \notin {NULL, ""}
        IN  /\ (hasHost /\ hasKey) =>
                   /\ req.headers =
                          {[name |-> "X-Session-API-Key", scheme |-> "",
                            key |-> a.session_api_key]}
                   /\ \A h \in req.headers : h.name # "Authorization"
            /\ (hasHost /\ ~hasKey) =>
                   req.headers =
                       {[name |-> "Authorization", scheme |-> "Bearer", key |-> a.api_key]}
            /\ hasHost => (req.host.runtime /\ req.host.id = a.runtime_id)
            /\ ~hasHost => (req.headers = {} /\ ~req.host.runtime)

C22_Witness ==
    /\ call.method = "get_trajectory"
    /\ req.args.runtime_id = "rt1"
    /\ req.args.session_api_key = "sk1"
    /\ req.headers # {}

(***************************************************************************)
(* Properties of download_conversation_files, checked under DownloadSpec.  *)
(***************************************************************************)

\* the paths of the entries of c that are not deleted files, in order
NotDeleted(c) ==
    LET kept == SelectSeq(c, LAMBDA e : e.status # "D")
    IN  [i \in 1..Len(kept) |-> kept[i].path]

\* the files fetched with success, in the order fetched
Succeeded ==
    LET idx == SelectSeq([i \in 1..Len(dl.fetched) |-> i], LAMBDA i : dl.results[i])
    IN  [k \in 1..Len(idx) |-> dl.fetched[idx[k]]]

C25_FailedMoveRestoresPage ==
    (nav.op \in {"next", "prev"} /\ nav.requested /\ ~nav.ok) =>
        /\ mgr.current_page = nav.before.current_page
        /\ mgr.conversations = nav.before.conversations
        /\ mgr.next_page_id = nav.before.next_page_id

C25_Witness ==
    /\ nav.op = "prev"
    /\ nav.requested
    /\ ~nav.ok
    /\ mgr.current_page = 1
    /\ mgr.conversations # <<>>

\* C26: whenever next_page issues a listing request, the page_id it passes to
\* search_conversations is the next_page_id the most recent successful load
\* returned.  The code passes page_ids[current_page + 1], which it recorded on
\* an earlier call when that entry exists.
C26_NextPagePassesLatestId ==
    (nav.op = "next" /\ nav.requested) => nav.page_id = nav.expected

\* C27: the number display_conversations shows beside a conversation is one
\* the commands w, s, f, t and a accept, and the command given that number
\* acts on that conversation.  The number counts from current_page * page_size,
\* the commands count from the top of the page.
C27_ShownNumberSelectsConversation ==
    picked.cmd # "none" =>
        \A j \in 1..Len(mgr.conversations) :
            picked.text = DisplayNumber(mgr, j) =>
                (picked.accepted /\ picked.conv = mgr.conversations[j])

\* sequence s is the beginning of sequence t
IsPrefix(s, t) == Len(s) <= Len(t) /\ SubSeq(t, 1, Len(s)) = s

\* C28: after any calls of next_page, prev_page and refresh_conversations,
\* with loads that succeed or fail, 0 <= current_page < len(page_ids),
\* page_ids[0] is None, and no entry of page_ids is changed or removed.
C28_PageIdsGrowOnly ==
    /\ 0 <= mgr.current_page
    /\ mgr.current_page < Len(mgr.page_ids)
    /\ mgr.page_ids[1] = NULL
    /\ nav.op # "none" => IsPrefix(nav.ids_before, mgr.page_ids)

C28_Witness ==
    /\ nav.op = "next"
    /\ nav.requested
    /\ ~nav.ok
    /\ Len(mgr.page_ids) = 3
    /\ mgr.current_page = 0

(***************************************************************************)
(* Properties of server add, checked under AddSpec.                        *)
(***************************************************************************)

\* C29: once the user has answered no to 'Save server configuration anyway?',
\* the command aborts: the question is not asked again and add_server is not
\* called, whether test_connection returned False, raised, or the permission
\* check failed.  After a no at line 55 or 67 the code asks again at line 72.
C29_NoMeansAbort ==
    (\E i \in 1..Len(adding.answers) : adding.answers[i] = "n") =>
        /\ adding.answers = <<"n">>
        /\ adding.pc = "done"
        /\ adding.result = "aborted"
        /\ ~adding.called

(***************************************************************************)
(* Properties of APIKeyManager.get_valid_key, checked under KeySpec.       *)
(***************************************************************************)

SourceRank(source) ==
    IF source \in {"OH_API_KEY", "OPENHANDS_API_KEY"} THEN 1
    ELSE IF source = "stored" THEN 2
    ELSE 3

\* C30: a key get_valid_key returns has passed test_connection and then
\* search_conversations(limit=1) on a client built with it; the candidates are
\* tried in the order environment (OH_API_KEY before OPENHANDS_API_KEY), stored
\* key, prompted key; store_key is called only with a prompted key that passed
\* both checks.
C30_ReturnedKeyPassedBothChecks ==
    LET a == keyrun.attempts
    IN  /\ keyrun.returned # <<>> =>
               /\ Len(a) > 0
               /\ a[Len(a)].key = keyrun.returned
               /\ a[Len(a)].test
               /\ a[Len(a)].search = "ok"
        /\ \A i, j \in 1..Len(a) :
               i < j =>
                   /\ SourceRank(a[i].source) <= SourceRank(a[j].source)
                   /\ SourceRank(a[i].source) < 3 =>
                          SourceRank(a[i].source) < SourceRank(a[j].source)
        /\ \A i \in 1..Len(a) :
               /\ a[i].source = "OH_API_KEY" => a[i].key = keyrun.oh
               /\ a[i].source = "OPENHANDS_API_KEY" =>
                      (keyrun.oh = <<>> /\ a[i].key = keyrun.openhands)
               /\ a[i].source = "stored" => a[i].key = keyrun.stored_key
        /\ \A k \in 1..Len(keyrun.store_calls) :
               \E i \in 1..Len(a) :
                   /\ a[i].source = "prompt"
                   /\ a[i].key = keyrun.store_calls[k]
                   /\ a[i].test
                   /\ a[i].search = "ok"

C30_Witness ==
    /\ keyrun.oh = <<"a">>
    /\ keyrun.openhands = <<"b">>
    /\ Len(keyrun.attempts) = 3
    /\ keyrun.returned = <<"d">>
    /\ keyrun.store_calls = << <<"d">> >>

(***************************************************************************)
(* Properties of resolve_conversation_id, checked under ResolveFaultSpec.  *)
(***************************************************************************)

AllCarryId == \A i \in 1..Len(listing) : Entry(listing[i]).has_id

\* the positions of the entries whose conversation_id starts with the token
MatchSet ==
    {i \in 1..Len(listing) :
        Entry(listing[i]).has_id /\ StartsWith(Entry(listing[i]).conversation_id, token)}

\* the k-th matching position, in listing order
NthMatch(k) == CHOOSE i \in MatchSet : Cardinality({j \in MatchSet : j < i}) = k - 1

\* the IDs of the candidates listed by the messages
Candidates ==
    LET lines == SelectSeq(echo, LAMBDA m : m.kind = "candidate")
    IN  [i \in 1..Len(lines) |-> lines[i].id]

\* C2: on a listing whose entries all carry a conversation_id, str(n) resolves to
\* the ID at 1-based position n when 1 <= n <= count, and otherwise to None with
\* a message reporting n and the bounds 1 and count.
C2_NumberResolvesByPosition ==
    (rpc = "done" /\ AllCarryId)
    => \A n \in Numbers :
           token = Str(n)
           => IF 1 <= n /\ n <= Len(listing)
              THEN ret = Some(Entry(listing[n]).conversation_id)
              ELSE /\ ret = None
                   /\ Len(echo) = 1
                   /\ echo[1].kind = "out_of_range"
                   /\ echo[1].number = n
                   /\ echo[1].lo = 1
                   /\ echo[1].hi = Len(listing)

\* C2's case: the last position of a full listing, whose neighbour holds another ID.
C2_Witness ==
    /\ rpc = "done"
    /\ AllCarryId
    /\ Len(listing) = MaxList
    /\ token = Str(MaxList)
    /\ listing[MaxList] # listing[MaxList - 1]
    /\ ret = Some(Entry(listing[MaxList]).conversation_id)

\* C3 as stated: every token of length >= 36 is returned unchanged with no call
\* of search_conversations.  A token of 36 digits is parsed as a number first.
C3_LongTokenUnchanged_Original ==
    (rpc = "done" /\ Len(token) >= FullIdLen)
    => (ret = Some(token) /\ calls = 0)

\* C3 amended: every token of length >= 36 that int() rejects is returned
\* unchanged with no call of search_conversations.
C3_LongTokenUnchanged ==
    (rpc = "done" /\ Len(token) >= FullIdLen /\ ~ParseInt(token).ok)
    => (ret = Some(token) /\ calls = 0 /\ echo = <<>>)

\* C3's case: a token of exactly 36 characters that no entry of a non-empty
\* listing carries is returned as it is.
C3_Witness ==
    /\ rpc = "done"
    /\ Len(token) = FullIdLen
    /\ ~ParseInt(token).ok
    /\ Len(listing) > 0
    /\ MatchSet = {}
    /\ ret = Some(token)
    /\ calls = 0

C6_NoneHasDiagnostic ==
    (rpc = "done" /\ ~ret.some) => Len(echo) > 0

====
